---- MODULE Spec2Model ----
(***************************************************************************)
(* png-to-figlet-font: src/main.rs.                                        *)
(*                                                                         *)
(* One run of main(): decode the font sheet, validate its dimensions and   *)
(* the pixel/blank options, scan the 16 x 6 grid of glyph cells pixel by   *)
(* pixel, create the output file and write the serialized FIGlet font.     *)
(*                                                                         *)
(* A Rust String is modelled as a sequence of one-character strings, so    *)
(* that push, push_str, chars().next() and format! are sequence            *)
(* operations and the serialized document can be inspected by position.    *)
(***************************************************************************)
EXTENDS Integers, Sequences, FiniteSets, TLC

(***************************************************************************)
(* Bounds of the model: the largest cell geometry of an input image.       *)
(***************************************************************************)
MaxCharWidth == 2
MaxCharHeight == 2

(***************************************************************************)
(* Program constants.                                                      *)
(***************************************************************************)
GridCols == 16
GridRows == 6
PadCount == 6

\* vec![blank_glyph; 6 * 16]
NumGlyphs == GridRows * GridCols

(***************************************************************************)
(* Inputs.                                                                 *)
(***************************************************************************)

\* Values of --pixel and --blank: empty, one character, several characters.
\* "@" is the FIGlet sentinel itself; both options may share a character.
PixelArgs == { <<>>, <<"#">>, <<"@", "#">> }
BlankArgs == { <<>>, <<" ">>, <<"#", " ">> }

\* Luma values a decoded pixel can have (u8); 1 and 128 are lit, 0 is not.
LumaTable == << 0, 255, 1, 0, 128, 0, 64 >>

\* An image's content is given by a pattern <<a, b, c, m>>:
\* the luma of pixel (x, y) is LumaTable[((a*x + b*y + c) % m) + 1].
Patterns == { << 0, 0, 0, 1 >>,      \* all black
              << 0, 0, 1, 2 >>,      \* all white
              << 1, 0, 0, 2 >>,      \* vertical stripes
              << 0, 1, 1, 3 >>,      \* horizontal bands
              << 1, 2, 1, 5 >>,      \* diagonal, period 5
              << 1, 33, 2, 7 >> }    \* diagonal, period 7

\* Remainders of the dimensions modulo the grid: exact, off by one, half.
WidthRests == { 0, 1, 8 }
HeightRests == { 0, 1, 3 }

Widths == { GridCols * k + r : k \in 0..MaxCharWidth, r \in WidthRests }
Heights == { GridRows * k + r : k \in 0..MaxCharHeight, r \in HeightRests }

\* The file at the input path: a decodable image, or not an image at all.
InputFiles ==
    [ decodable : {TRUE}, width : Widths, height : Heights, pat : Patterns ]
    \cup { [ decodable |-> FALSE, width |-> 0, height |-> 0,
             pat |-> << 0, 0, 0, 1 >> ] }

\* The command lines of the runs: every image with the options "#" and " ",
\* and every combination of the options with the images of one pattern and
\* with the file that is no image.
PlainArgs == [ pixel |-> << "#" >>, blank |-> << " " >> ]

Inputs ==
    { in \in [ args : [ pixel : PixelArgs, blank : BlankArgs ],
               image : InputFiles ] :
         \/ in.args = PlainArgs
         \/ in.image.pat = << 1, 33, 2, 7 >>
         \/ ~in.image.decodable }

(***************************************************************************)
(* Results of main().                                                      *)
(***************************************************************************)
Running == "running"
Ok == "Ok"
ErrDecode == "image::open failed"
ErrWidth == "Font file is not a width divisible by 16."
ErrHeight == "Font file is not a height divisible by 6."
ErrPixel == "Could not use the provided pixel."
ErrBlank == "Could not use the provided blank."
ErrCreate == "File::create failed"
ErrWrite == "write_all failed"
Panicked == "panic"

NoChar == ""

(***************************************************************************)
(* Pure functions of the program.                                          *)
(***************************************************************************)

\* image.get_pixel(x, y).to_luma().0[0]
Luminance(img, x, y) ==
    LumaTable[((img.pat[1] * x + img.pat[2] * y + img.pat[3]) % img.pat[4]) + 1]

\* get_pixel panics outside the image
InBounds(img, x, y) == x < img.width /\ y < img.height

\* Variant: the width is tested against the number of grid rows.
WidthRejected_GridRows(w) == w % GridRows # 0

\* width % 16 != 0  /  height % 6 != 0
WidthRejected(w) == w % GridCols # 0
HeightRejected(h) == h % GridRows # 0

\* Variant: the last character of the option is taken instead of the first.
FirstChar_Last(s) == s[Len(s)]

\* s.chars().next(): Some(first character) or None
HasFirstChar(s) == Len(s) > 0
FirstChar(s) == s[1]

\* let char_width = width / 16;  let char_height = height / 6;
CharWidthOf(w) == w \div GridCols
CharHeightOf(h) == h \div GridRows

\* let glyph_index = glyph_y * 16 + glyph_x;
GlyphIndex(gy, gx) == gy * 16 + gx

\* Variant: the grid width is used as the stride instead of the cell width.
PixelX_FixedStride(gx, cw, lx) == gx * 16 + lx

\* let x = glyph_x * char_width + local_x;  (u32; with glyph_x < 16 and
\* local_x < char_width = width / 16 the sum stays below width, so the
\* arithmetic never wraps)
PixelX(gx, cw, lx) == gx * cw + lx

\* let y = glyph_y * char_height + local_y;
PixelY(gy, ch, ly) == gy * ch + ly

\* Variant: the threshold sits at half of the luma range.
CellChar_HalfRange(luminance, pixelc, blankc) ==
    IF luminance > 127 THEN pixelc ELSE blankc

\* if luminance != 0 { pixel_char } else { blank_char }
CellChar(luminance, pixelc, blankc) ==
    IF luminance # 0 THEN pixelc ELSE blankc

\* Variant: one row too many.
FigletGlyphNew_ExtraRow(h) == [ rows |-> [ i \in 1..(h + 1) |-> <<>> ] ]

\* FigletGlyph::new
FigletGlyphNew(h) == [ rows |-> [ i \in 1..h |-> <<>> ] ]

\* Variant: one glyph too few.
FigletFontNew_OneShort(h) ==
    [ char_height |-> h,
      glyphs |-> [ i \in 1..(6 * 16 - 1) |-> [ rows |-> [ j \in 1..h |-> <<>> ] ] ] ]

\* FigletFont::new
FigletFontNew(h) ==
    [ char_height |-> h,
      glyphs |-> [ i \in 1..(6 * 16) |-> FigletGlyphNew(h) ] ]

\* relevant_string.push(c) on glyph.rows[local_y] of font.glyphs[glyph_index]
PushCell(f, gi, ly, c) ==
    [ f EXCEPT !.glyphs[gi + 1].rows[ly + 1] = Append(@, c) ]

\* `out` of FigletGlyph::output after the first n iterations of its loop
RECURSIVE GlyphOutputAfter(_, _)
GlyphOutputAfter(glyph, n) ==
    IF n = 0 THEN <<>>
    ELSE LET i == n - 1
         IN  (GlyphOutputAfter(glyph, i) \o glyph.rows[i + 1]) \o
                 (IF i = Len(glyph.rows) - 1
                  THEN << "@", "@", "\n" >>
                  ELSE << "@", "\n" >>)

\* Variant: the last row is compared against rows.len(), so no row is last.
RECURSIVE GlyphOutputAfter_NoLast(_, _)
GlyphOutputAfter_NoLast(glyph, n) ==
    IF n = 0 THEN <<>>
    ELSE LET i == n - 1
         IN  (GlyphOutputAfter_NoLast(glyph, i) \o glyph.rows[i + 1]) \o
                 (IF i = Len(glyph.rows)
                  THEN << "@", "@", "\n" >>
                  ELSE << "@", "\n" >>)

FigletGlyphOutput_NoLast(glyph) ==
    GlyphOutputAfter_NoLast(glyph, Len(glyph.rows))

\* FigletGlyph::output
FigletGlyphOutput(glyph) == GlyphOutputAfter(glyph, Len(glyph.rows))

\* format!("{}", n) for an unsigned integer
DigitChars == << "0", "1", "2", "3", "4", "5", "6", "7", "8", "9" >>

RECURSIVE Decimal(_)
Decimal(n) ==
    IF n < 10 THEN << DigitChars[n + 1] >>
    ELSE Decimal(n \div 10) \o << DigitChars[(n % 10) + 1] >>

\* format!("flf2a$ {} {} 20 -1 2\n", self.char_height, self.char_height)
Header(h) ==
    << "f", "l", "f", "2", "a", "$", " " >> \o Decimal(h) \o << " " >>
    \o Decimal(h) \o << " ", "2", "0", " ", "-", "1", " ", "2", "\n" >>

\* "Font automatically generated from rust crate png-to-figlet-font\n\n"
Banner ==
    << "F", "o", "n", "t", " ", "a", "u", "t", "o", "m", "a", "t",
       "i", "c", "a", "l", "l", "y", " ", "g", "e", "n", "e", "r",
       "a", "t", "e", "d", " ", "f", "r", "o", "m", " ", "r", "u",
       "s", "t", " ", "c", "r", "a", "t", "e", " ", "p", "n", "g",
       "-", "t", "o", "-", "f", "i", "g", "l", "e", "t", "-", "f",
       "o", "n", "t", "\n", "\n" >>

\* `out` of FigletFont::output after the first n iterations of
\* for glyph in &self.glyphs { out.push_str(glyph.output()) }
RECURSIVE FontGlyphsAfter(_, _)
FontGlyphsAfter(f, n) ==
    IF n = 0 THEN Header(f.char_height) \o Banner
    ELSE FontGlyphsAfter(f, n - 1) \o FigletGlyphOutput(f.glyphs[n])

\* `out` after the first n iterations of
\* for _ in 0..6 { out.push_str(space_glyph.output()) }
RECURSIVE PaddingAfter(_, _)
PaddingAfter(f, n) ==
    IF n = 0 THEN FontGlyphsAfter(f, Len(f.glyphs))
    ELSE PaddingAfter(f, n - 1) \o FigletGlyphOutput(f.glyphs[1])

\* Variant: one padding glyph too few.
FigletFontOutput_FivePads(f) == PaddingAfter(f, 5)

\* FigletFont::output
FigletFontOutput(f) == PaddingAfter(f, 6)

(***************************************************************************)
(* State.                                                                  *)
(***************************************************************************)
VARIABLES
    pc,            \* position of main()
    args,          \* Args: pixel, blank (input and output are paths)
    image,         \* the file at args.input, the decoded image once opened
    width,         \* let width
    height,        \* let height
    pixel_char,    \* let pixel_char
    blank_char,    \* let blank_char
    char_width,    \* let char_width
    char_height,   \* let char_height
    font,          \* let mut font
    debug_coords,  \* let mut debug_coords
    glyph_y,       \* loop variables of the scan
    glyph_x,
    local_y,
    local_x,
    stdout,        \* lines printed by println!
    file,          \* the file at args.output
    result         \* what main() returned

vars == << pc, args, image, width, height, pixel_char, blank_char,
           char_width, char_height, font, debug_coords,
           glyph_y, glyph_x, local_y, local_x, stdout, file, result >>

NoFont == [ char_height |-> 0, glyphs |-> <<>> ]
NoFile == [ exists |-> FALSE, content |-> <<>> ]

Init ==
    /\ pc = "open"
    /\ \E in \in Inputs : args = in.args /\ image = in.image
    /\ width = 0
    /\ height = 0
    /\ pixel_char = NoChar
    /\ blank_char = NoChar
    /\ char_width = 0
    /\ char_height = 0
    /\ font = NoFont
    /\ debug_coords = <<>>
    /\ glyph_y = 0
    /\ glyph_x = 0
    /\ local_y = 0
    /\ local_x = 0
    /\ stdout = <<>>
    /\ file = NoFile
    /\ result = Running

\* return Err(..) / the ? operator / a panic: main() ends with result r
Return(r) ==
    /\ pc' = "done"
    /\ result' = r

(***************************************************************************)
(* main(), statement by statement.                                         *)
(***************************************************************************)

\* Variant: the output file is created as soon as the image is opened.
OpenImage_CreatesFile ==
    /\ pc = "open"
    /\ IF image.decodable
       THEN /\ pc' = "width"
            /\ file' = [ exists |-> TRUE, content |-> <<>> ]
            /\ UNCHANGED result
       ELSE /\ Return(ErrDecode)
            /\ UNCHANGED file
    /\ UNCHANGED << args, image, width, height, pixel_char, blank_char,
                    char_width, char_height, font, debug_coords,
                    glyph_y, glyph_x, local_y, local_x, stdout >>

\* let image = image::open(input_file_name)?;
OpenImage ==
    /\ pc = "open"
    /\ IF image.decodable
       THEN pc' = "width" /\ UNCHANGED result
       ELSE Return(ErrDecode)
    /\ UNCHANGED << args, image, width, height, pixel_char, blank_char,
                    char_width, char_height, font, debug_coords,
                    glyph_y, glyph_x, local_y, local_x, stdout, file >>

\* let width = image.width(); if width % 16 != 0 { return Err(..) }
CheckWidth ==
    /\ pc = "width"
    /\ width' = image.width
    /\ IF WidthRejected(image.width)
       THEN Return(ErrWidth)
       ELSE pc' = "height" /\ UNCHANGED result
    /\ UNCHANGED << args, image, height, pixel_char, blank_char,
                    char_width, char_height, font, debug_coords,
                    glyph_y, glyph_x, local_y, local_x, stdout, file >>

\* let height = image.height(); if height % 6 != 0 { return Err(..) }
CheckHeight ==
    /\ pc = "height"
    /\ height' = image.height
    /\ IF HeightRejected(image.height)
       THEN Return(ErrHeight)
       ELSE pc' = "pixel" /\ UNCHANGED result
    /\ UNCHANGED << args, image, width, pixel_char, blank_char,
                    char_width, char_height, font, debug_coords,
                    glyph_y, glyph_x, local_y, local_x, stdout, file >>

\* let pixel_char = match args.pixel.chars().next() { .. }
PixelChar ==
    /\ pc = "pixel"
    /\ IF HasFirstChar(args.pixel)
       THEN /\ pixel_char' = FirstChar(args.pixel)
            /\ pc' = "blank"
            /\ UNCHANGED result
       ELSE /\ Return(ErrPixel)
            /\ UNCHANGED pixel_char
    /\ UNCHANGED << args, image, width, height, blank_char,
                    char_width, char_height, font, debug_coords,
                    glyph_y, glyph_x, local_y, local_x, stdout, file >>

\* let blank_char = match args.blank.chars().next() { .. }
BlankChar ==
    /\ pc = "blank"
    /\ IF HasFirstChar(args.blank)
       THEN /\ blank_char' = FirstChar(args.blank)
            /\ pc' = "derive"
            /\ UNCHANGED result
       ELSE /\ Return(ErrBlank)
            /\ UNCHANGED blank_char
    /\ UNCHANGED << args, image, width, height, pixel_char,
                    char_width, char_height, font, debug_coords,
                    glyph_y, glyph_x, local_y, local_x, stdout, file >>

\* char_width, char_height, println!, FigletFont::new, debug_coords,
\* and the start of `for glyph_y in 0u32..6`
Derive ==
    /\ pc = "derive"
    /\ char_width' = CharWidthOf(width)
    /\ char_height' = CharHeightOf(height)
    /\ stdout' = Append(stdout, << char_width', char_height' >>)
    /\ font' = FigletFontNew(char_height')
    /\ debug_coords' = <<>>
    /\ glyph_y' = 0
    /\ pc' = "for_glyph_y"
    /\ UNCHANGED << args, image, width, height, pixel_char, blank_char,
                    glyph_x, local_y, local_x, file, result >>

\* for glyph_y in 0u32..6 {
ForGlyphY ==
    /\ pc = "for_glyph_y"
    /\ IF glyph_y < 6
       THEN glyph_x' = 0 /\ pc' = "for_glyph_x"
       ELSE pc' = "create" /\ UNCHANGED glyph_x
    /\ UNCHANGED << args, image, width, height, pixel_char, blank_char,
                    char_width, char_height, font, debug_coords,
                    glyph_y, local_y, local_x, stdout, file, result >>

\* for glyph_x in 0u32..16 { let glyph = &mut font.glyphs[glyph_index];
ForGlyphX ==
    /\ pc = "for_glyph_x"
    /\ IF glyph_x < 16
       THEN IF GlyphIndex(glyph_y, glyph_x) < Len(font.glyphs)
            THEN /\ local_y' = 0
                 /\ pc' = "for_local_y"
                 /\ UNCHANGED << glyph_y, result >>
            ELSE /\ Return(Panicked)
                 /\ UNCHANGED << glyph_y, local_y >>
       ELSE /\ glyph_y' = glyph_y + 1
            /\ pc' = "for_glyph_y"
            /\ UNCHANGED << local_y, result >>
    /\ UNCHANGED << args, image, width, height, pixel_char, blank_char,
                    char_width, char_height, font, debug_coords,
                    glyph_x, local_x, stdout, file >>

\* for local_y in 0u32..char_height {
\*     let relevant_string = &mut glyph.rows[local_y];
ForLocalY ==
    /\ pc = "for_local_y"
    /\ IF local_y < char_height
       THEN IF local_y <
                 Len(font.glyphs[GlyphIndex(glyph_y, glyph_x) + 1].rows)
            THEN /\ local_x' = 0
                 /\ pc' = "for_local_x"
                 /\ UNCHANGED << glyph_x, result >>
            ELSE /\ Return(Panicked)
                 /\ UNCHANGED << glyph_x, local_x >>
       ELSE /\ glyph_x' = glyph_x + 1
            /\ pc' = "for_glyph_x"
            /\ UNCHANGED << local_x, result >>
    /\ UNCHANGED << args, image, width, height, pixel_char, blank_char,
                    char_width, char_height, font, debug_coords,
                    glyph_y, local_y, stdout, file >>

\* for local_x in 0u32..char_width { .. the body of the scan .. }
ForLocalX ==
    /\ pc = "for_local_x"
    /\ IF local_x < char_width
       THEN LET x == PixelX(glyph_x, char_width, local_x)
                y == PixelY(glyph_y, char_height, local_y)
            IN  /\ debug_coords' = Append(debug_coords, << x, y >>)
                /\ IF InBounds(image, x, y)
                   THEN /\ font' = PushCell(font,
                                       GlyphIndex(glyph_y, glyph_x), local_y,
                                       CellChar(Luminance(image, x, y),
                                                pixel_char, blank_char))
                        /\ local_x' = local_x + 1
                        /\ pc' = "for_local_x"
                        /\ UNCHANGED << local_y, result >>
                   ELSE /\ Return(Panicked)
                        /\ UNCHANGED << font, local_x, local_y >>
       ELSE /\ local_y' = local_y + 1
            /\ pc' = "for_local_y"
            /\ UNCHANGED << font, debug_coords, local_x, result >>
    /\ UNCHANGED << args, image, width, height, pixel_char, blank_char,
                    char_width, char_height, glyph_y, glyph_x, stdout, file >>

\* let mut file = File::create(&args.output)?;
CreateFile ==
    /\ pc = "create"
    /\ \E created \in BOOLEAN :
          IF created
          THEN /\ file' = [ exists |-> TRUE, content |-> <<>> ]
               /\ pc' = "write"
               /\ UNCHANGED result
          ELSE /\ Return(ErrCreate)
               /\ UNCHANGED file
    /\ UNCHANGED << args, image, width, height, pixel_char, blank_char,
                    char_width, char_height, font, debug_coords,
                    glyph_y, glyph_x, local_y, local_x, stdout >>

\* How much of the text a failed write_all may leave in the file.
PartialLengths(text) == { 0, Len(text) \div 2, Len(text) - 1 }

\* file.write_all(font.output().as_bytes())?; Ok(())
WriteAll ==
    /\ pc = "write"
    /\ LET text == FigletFontOutput(font)
       IN  \/ /\ file' = [ file EXCEPT !.content = text ]
              /\ Return(Ok)
           \/ /\ \E n \in PartialLengths(text) :
                    file' = [ file EXCEPT !.content = SubSeq(text, 1, n) ]
              /\ Return(ErrWrite)
    /\ UNCHANGED << args, image, width, height, pixel_char, blank_char,
                    char_width, char_height, font, debug_coords,
                    glyph_y, glyph_x, local_y, local_x, stdout >>

Next ==
    \/ OpenImage
    \/ CheckWidth
    \/ CheckHeight
    \/ PixelChar
    \/ BlankChar
    \/ Derive
    \/ ForGlyphY
    \/ ForGlyphX
    \/ ForLocalY
    \/ ForLocalX
    \/ CreateFile
    \/ WriteAll

Spec == Init /\ [][Next]_vars

(***************************************************************************)
(* Vocabulary of the properties.                                           *)
(***************************************************************************)

\* main() is inside the scan loops
InScan == pc \in { "for_glyph_y", "for_glyph_x", "for_local_y", "for_local_x" }

\* the scan loops have run to completion
ScanDone ==
    \/ pc \in { "create", "write" }
    \/ pc = "done" /\ result \in { Ok, ErrCreate, ErrWrite }

\* FigletFont::new has run
FontBuilt == InScan \/ ScanDone \/ (pc = "done" /\ result = Panicked)

\* Every value a glyph ever takes is met in one of three places: in the
\* fresh font, under the cursor of the scan, or in the finished font.
GlyphsToRender ==
    IF pc \in { "for_local_y", "for_local_x" }
    THEN { GlyphIndex(glyph_y, glyph_x) + 1 } \cap (1..Len(font.glyphs))
    ELSE IF pc = "create" \/ (pc = "for_glyph_y" /\ glyph_y = 0)
         THEN 1..Len(font.glyphs)
         ELSE {}

\* the input passes every check of main()
ValidInput ==
    /\ image.decodable
    /\ image.width % GridCols = 0
    /\ image.height % GridRows = 0
    /\ args.pixel # <<>>
    /\ args.blank # <<>>

\* the pixels of the image
PixelsOf(img) == (0..(img.width - 1)) \X (0..(img.height - 1))

\* the glyph cell that pixel (x, y) of the sheet belongs to, NoChar when the
\* font has no such cell
CellOf(f, cw, ch, x, y) ==
    LET g == (y \div ch) * GridCols + (x \div cw) + 1
        r == (y % ch) + 1
        c == (x % cw) + 1
    IN  IF /\ g \in 1..Len(f.glyphs)
           /\ r \in 1..Len(f.glyphs[g].rows)
           /\ c \in 1..Len(f.glyphs[g].rows[r])
        THEN f.glyphs[g].rows[r][c]
        ELSE NoChar

(***************************************************************************)
(* C1: for every image whose width is divisible by 16 and whose height is  *)
(* divisible by 6, with usable pixel/blank options, the run gets through   *)
(* the scan, and once the scan is complete the font holds exactly 96       *)
(* glyphs, each of exactly height/6 rows, each row exactly width/16        *)
(* characters long.                                                        *)
(***************************************************************************)
C1_GlyphGeometry ==
    /\ (pc = "done" /\ ValidInput) => result \in { Ok, ErrCreate, ErrWrite }
    /\ ScanDone =>
          /\ ValidInput
          /\ Len(font.glyphs) = NumGlyphs
          /\ \A g \in 1..Len(font.glyphs) :
                /\ Len(font.glyphs[g].rows) = image.height \div GridRows
                /\ \A r \in 1..Len(font.glyphs[g].rows) :
                      Len(font.glyphs[g].rows[r]) = image.width \div GridCols

C1_Witness ==
    /\ pc = "create"
    /\ image.width = 2 * GridCols
    /\ image.height = 2 * GridRows

(***************************************************************************)
(* C2: threshold law.  After the scan every pixel (x, y) of the image has  *)
(* its glyph cell equal to the blank character if its luminance is 0 and   *)
(* to the pixel character if its luminance is greater than 0; no glyph     *)
(* cell ever holds a third value.                                          *)
(***************************************************************************)
C2_ThresholdLaw ==
    /\ ScanDone =>
          \A xy \in PixelsOf(image) :
             LET cell == CellOf(font, char_width, char_height, xy[1], xy[2])
                 lum == Luminance(image, xy[1], xy[2])
             IN  /\ lum = 0 => cell = blank_char
                 /\ lum > 0 => cell = pixel_char
    /\ \A g \in GlyphsToRender :
          \A r \in 1..Len(font.glyphs[g].rows) :
             \A c \in 1..Len(font.glyphs[g].rows[r]) :
                font.glyphs[g].rows[r][c] \in { pixel_char, blank_char }

C2_Witness ==
    /\ pc = "create"
    /\ pixel_char # blank_char
    /\ \E xy \in PixelsOf(image) : Luminance(image, xy[1], xy[2]) = 1
    /\ \E xy \in PixelsOf(image) : Luminance(image, xy[1], xy[2]) = 0
    /\ \E xy \in PixelsOf(image) : Luminance(image, xy[1], xy[2]) = 255

(***************************************************************************)
(* Reading a serialized document back, by position.                        *)
(***************************************************************************)

\* the first index >= from at which s holds c, Len(s) + 1 if there is none
IndexOf(s, c, from) ==
    LET hits == { i \in from..Len(s) : s[i] = c }
    IN  IF hits = {} THEN Len(s) + 1
        ELSE CHOOSE i \in hits : \A j \in hits : i <= j

\* the fields of a line, separated by single spaces
SplitFields(line) ==
    LET spaces == { i \in 1..Len(line) : line[i] = " " }
        cuts == spaces \cup { 0, Len(line) + 1 }
        Cut(k) == CHOOSE i \in cuts : Cardinality({ j \in cuts : j < i }) = k
    IN  [ k \in 1..(Cardinality(spaces) + 1) |->
             SubSeq(line, Cut(k - 1) + 1, Cut(k) - 1) ]

\* a canonical unsigned decimal numeral
IsDecimal(ds) ==
    /\ Len(ds) >= 1
    /\ \A i \in 1..Len(ds) : \E d \in 0..9 : DigitChars[d + 1] = ds[i]
    /\ Len(ds) > 1 => ds[1] # "0"

RECURSIVE ParseDecimal(_)
ParseDecimal(ds) ==
    IF ds = <<>> THEN 0
    ELSE ParseDecimal(SubSeq(ds, 1, Len(ds) - 1)) * 10
         + (CHOOSE d \in 0..9 : DigitChars[d + 1] = ds[Len(ds)])

\* where row i (from 0) of a glyph starts in the glyph's block: every row
\* before it takes its own length, one sentinel and one newline
RECURSIVE RowOffset(_, _)
RowOffset(glyph, i) ==
    IF i = 0 THEN 0
    ELSE RowOffset(glyph, i - 1) + Len(glyph.rows[i]) + 2

\* block is the rendering of glyph: each row verbatim, then one "@" and a
\* newline, the last row then "@@" and a newline, and nothing else
IsBlockOf(block, glyph) ==
    LET n == Len(glyph.rows)
    IN  /\ Len(block) = IF n = 0 THEN 0 ELSE RowOffset(glyph, n) + 1
        /\ \A i \in 0..(n - 1) :
              LET row == glyph.rows[i + 1]
                  end == RowOffset(glyph, i) + Len(row)
              IN  /\ SubSeq(block, RowOffset(glyph, i) + 1, end) = row
                  /\ block[end + 1] = "@"
                  /\ IF i = n - 1
                     THEN block[end + 2] = "@" /\ block[end + 3] = "\n"
                     ELSE block[end + 2] = "\n"

(***************************************************************************)
(* C3: the serialized document is, in this order and with nothing else:    *)
(* the header line "flf2a$ H H 20 -1 2" with H = height/6, one banner      *)
(* line, one blank line, the 96 glyph blocks in index order, then exactly  *)
(* 6 further blocks each identical to the block of glyph 0.                *)
(***************************************************************************)
C3_Document ==
    (pc = "done" /\ result = Ok) =>
       LET doc == file.content
           H == image.height \div GridRows
           W == image.width \div GridCols
           nl1 == IndexOf(doc, "\n", 1)
           fields == SplitFields(SubSeq(doc, 1, nl1 - 1))
           nl2 == IndexOf(doc, "\n", nl1 + 1)
           base == nl2 + 1
           blockLen == IF H = 0 THEN 0 ELSE H * (W + 2) + 1
           Block(k) == SubSeq(doc, base + k * blockLen + 1,
                              base + (k + 1) * blockLen)
       IN  /\ Len(fields) = 6
           /\ fields[1] = << "f", "l", "f", "2", "a", "$" >>
           /\ IsDecimal(fields[2]) /\ ParseDecimal(fields[2]) = H
           /\ IsDecimal(fields[3]) /\ ParseDecimal(fields[3]) = H
           /\ fields[4] = << "2", "0" >>
           /\ fields[5] = << "-", "1" >>
           /\ fields[6] = << "2" >>
           /\ SubSeq(doc, nl1 + 1, nl2 - 1) = SubSeq(Banner, 1, Len(Banner) - 2)
           /\ nl2 > nl1 + 1
           /\ base <= Len(doc) /\ doc[base] = "\n"
           /\ Len(doc) = base + (NumGlyphs + PadCount) * blockLen
           /\ \A k \in 0..(NumGlyphs - 1) :
                 IsBlockOf(Block(k), font.glyphs[k + 1])
           /\ \A k \in NumGlyphs..(NumGlyphs + PadCount - 1) :
                 Block(k) = Block(0)

C3_Witness ==
    /\ pc = "done"
    /\ result = Ok
    /\ char_height = 2
    /\ char_width = 2
    /\ font.glyphs[1] # font.glyphs[2]
    /\ font.glyphs[1] # font.glyphs[NumGlyphs]

(***************************************************************************)
(* C4: FigletGlyph::output, for every glyph of at least one row, emits     *)
(* each row verbatim followed by exactly one "@" and a newline, except the *)
(* last row, which is followed by exactly "@@" and a newline; the block    *)
(* has exactly one doubled terminator, on its final row, also when the     *)
(* glyph has a single row.                                                 *)
(***************************************************************************)
C4_GlyphBlock ==
    (FontBuilt /\ char_height >= 1) =>
       \A g \in GlyphsToRender :
          LET glyph == font.glyphs[g]
              block == FigletGlyphOutput(glyph)
              n == Len(glyph.rows)
              Doubled(i) ==
                  LET end == RowOffset(glyph, i) + Len(glyph.rows[i + 1])
                  IN  SubSeq(block, end + 1, end + 3) = << "@", "@", "\n" >>
          IN  /\ n >= 1
              /\ IsBlockOf(block, glyph)
              /\ { i \in 0..(n - 1) : Doubled(i) } = { n - 1 }

C4_Witness ==
    /\ pc = "for_local_x"
    /\ char_height = 2
    /\ local_y = 1
    /\ local_x = 1
    /\ glyph_y = 3

(***************************************************************************)
(* C5: dimension rejection.  A decoded image whose width is not divisible  *)
(* by 16 ends the run with the width error; one whose width is divisible   *)
(* by 16 but whose height is not divisible by 6 ends it with the height    *)
(* error; when both are invalid the width error is reported.  In every     *)
(* such run no pixel is sampled and no output file is created.             *)
(***************************************************************************)
C5_DimensionRejection ==
    LET badWidth == image.width % 16 # 0
        badHeight == image.height % 6 # 0
    IN  /\ (image.decodable /\ (badWidth \/ badHeight)) =>
              /\ debug_coords = <<>>
              /\ ~file.exists
              /\ ~InScan
              /\ ~ScanDone
        /\ (pc = "done" /\ image.decodable /\ badWidth) => result = ErrWidth
        /\ (pc = "done" /\ image.decodable /\ ~badWidth /\ badHeight) =>
              result = ErrHeight

C5_Witness ==
    /\ pc = "done"
    /\ result = ErrWidth
    /\ image.width = GridCols + 1
    /\ image.height = GridRows + 1

(***************************************************************************)
(* C6: char_width and char_height are at least 1.  An image smaller than   *)
(* 16 x 6 pixels, width 0 or height 0 included, is rejected with a         *)
(* dimension error, and the run never reaches the scan or writes an        *)
(* output with char_width = 0 or char_height = 0.                          *)
(***************************************************************************)
C6_MinimumSize ==
    /\ (pc = "done" /\ image.decodable
            /\ (image.width < 16 \/ image.height < 6)) =>
          /\ result \in { ErrWidth, ErrHeight }
          /\ ~file.exists
    /\ (InScan \/ ScanDone) => (char_width >= 1 /\ char_height >= 1)

(***************************************************************************)
(* C7: all-or-nothing output.                                              *)
(***************************************************************************)

\* the output file exists only after decoding, both dimension checks, both
\* option checks and the complete scan of the 96 glyphs have succeeded
CreatedOnlyAfterScan ==
    file.exists =>
       /\ ValidInput
       /\ pc \in { "write", "done" }
       /\ glyph_y = GridRows
       /\ Len(debug_coords) = image.width * image.height

\* a successful run has written the whole font text
WrittenWhenOk ==
    (pc = "done" /\ result = Ok) =>
       /\ file.exists
       /\ file.content = FigletFontOutput(font)
       /\ Len(file.content) >= Len(Banner)

\* C7 as stated: the file is created only after everything else has
\* succeeded, any run that ends in an error has written nothing, and any
\* successful run has written the whole font text.  The error clause is
\* stated for images of at least 16 x 6 pixels, the images the minimum size
\* of C6 admits.
C7_AllOrNothing_AnyError ==
    /\ CreatedOnlyAfterScan
    /\ (pc = "done" /\ result # Ok
            /\ image.width >= GridCols /\ image.height >= GridRows) =>
          (~file.exists /\ file.content = <<>>)
    /\ WrittenWhenOk

\* C7 amended: the file is created only after everything else has
\* succeeded; a run that ends in any error other than a failure of the
\* write itself has written nothing; a run whose write_all fails leaves the
\* created file with a proper prefix of the font text; a successful run has
\* written the whole font text.
C7_AllOrNothing ==
    /\ CreatedOnlyAfterScan
    /\ (pc = "done" /\ result \notin { Ok, ErrWrite }) =>
          (~file.exists /\ file.content = <<>>)
    /\ (pc = "done" /\ result = ErrWrite) =>
          /\ file.exists
          /\ Len(file.content) < Len(FigletFontOutput(font))
          /\ file.content =
                SubSeq(FigletFontOutput(font), 1, Len(file.content))
    /\ WrittenWhenOk

C7_Witness ==
    /\ pc = "done"
    /\ result = Ok
    /\ file.exists
    /\ char_width = 1
    /\ char_height = 2

(***************************************************************************)
(* C8: character configuration.                                            *)
(***************************************************************************)

\* with both options usable, the first character of each is the character
\* of the lit and of the unlit cells
FirstCharsUsed ==
    (ScanDone /\ args.pixel # <<>> /\ args.blank # <<>>) =>
       /\ pixel_char = Head(args.pixel)
       /\ blank_char = Head(args.blank)
       /\ \A xy \in PixelsOf(image) :
             CellOf(font, char_width, char_height, xy[1], xy[2]) =
                IF Luminance(image, xy[1], xy[2]) # 0
                THEN Head(args.pixel)
                ELSE Head(args.blank)

\* C8 as stated: an empty pixel or blank value ends the run with the error
\* naming that option, before any pixel is sampled and without the output
\* file; otherwise the first character of each value is used.  Stated for
\* the runs whose input file is an image.
C8_CharConfig_NamesOption ==
    /\ (pc = "done" /\ image.decodable /\ args.pixel = <<>>) =>
          (result = ErrPixel /\ debug_coords = <<>> /\ ~file.exists)
    /\ (pc = "done" /\ image.decodable /\ args.blank = <<>>) =>
          (result = ErrBlank /\ debug_coords = <<>> /\ ~file.exists)
    /\ FirstCharsUsed

\* C8 amended: an empty pixel or blank value ends the run in an error
\* before any pixel is sampled and without the output file.  When the image
\* decoded and passed both dimension checks, that error names the pixel
\* option if the pixel value is empty, and the blank option if only the
\* blank value is empty; a decode or dimension error takes precedence over
\* both.  Otherwise the first character of each value is used.
C8_CharConfig ==
    /\ (args.pixel = <<>> \/ args.blank = <<>>) =>
          /\ debug_coords = <<>>
          /\ ~file.exists
          /\ ~InScan
          /\ ~ScanDone
          /\ pc = "done" =>
                result \in { ErrDecode, ErrWidth, ErrHeight, ErrPixel, ErrBlank }
    /\ (pc = "done" /\ image.decodable
            /\ image.width % 16 = 0 /\ image.height % 6 = 0) =>
          /\ args.pixel = <<>> => result = ErrPixel
          /\ (args.pixel # <<>> /\ args.blank = <<>>) => result = ErrBlank
    /\ (pc = "done" /\ result = ErrPixel) => args.pixel = <<>>
    /\ (pc = "done" /\ result = ErrBlank) => args.blank = <<>>
    /\ FirstCharsUsed

C8_Witness ==
    /\ pc = "done"
    /\ result = ErrPixel
    /\ args.blank = <<>>
    /\ image.width = 2 * GridCols

(***************************************************************************)
(* C9: the pixel-to-cell mapping is a bijection.  Every sampled coordinate *)
(* x = glyph_x*char_width + local_x, y = glyph_y*char_height + local_y     *)
(* lies inside the image, every pixel is sampled exactly once, and the     *)
(* character appended for it lands at row local_y, column local_x of       *)
(* glyph glyph_y*16 + glyph_x.                                             *)
(***************************************************************************)
\* the glyph, row and column (all from 0) that pixel (x, y) belongs to
GlyphOfPixel(x, y) == (y \div char_height) * GridCols + (x \div char_width)
RowOfPixel(y) == y % char_height
ColumnOfPixel(x) == x % char_width

C9_Bijection ==
    /\ result # Panicked
    \* the coordinate about to be sampled lies inside the image, and its
    \* character will be appended at column local_x of row local_y
    /\ (pc = "for_local_x" /\ local_x < char_width) =>
          LET x == glyph_x * char_width + local_x
              y == glyph_y * char_height + local_y
              g == glyph_y * 16 + glyph_x + 1
          IN  /\ x < image.width
              /\ y < image.height
              /\ glyph_y < GridRows /\ glyph_x < GridCols
              /\ g <= Len(font.glyphs)
              /\ local_y < Len(font.glyphs[g].rows)
              /\ Len(font.glyphs[g].rows[local_y + 1]) = local_x
    \* the coordinate sampled last is a pixel not sampled before, and its
    \* character is the last one of the row it belongs to
    /\ (InScan /\ debug_coords # <<>>) =>
          LET n == Len(debug_coords)
              x == debug_coords[n][1]
              y == debug_coords[n][2]
          IN  /\ << x, y >> \in PixelsOf(image)
              /\ \A i \in 1..(n - 1) : debug_coords[i] # << x, y >>
              /\ GlyphOfPixel(x, y) < Len(font.glyphs)
              /\ RowOfPixel(y) < Len(font.glyphs[GlyphOfPixel(x, y) + 1].rows)
              /\ Len(font.glyphs[GlyphOfPixel(x, y) + 1].rows[RowOfPixel(y) + 1])
                    = ColumnOfPixel(x) + 1
    \* after the scan every pixel has been sampled, each exactly once, and
    \* has a cell of its own
    /\ ScanDone =>
          /\ { debug_coords[i] : i \in 1..Len(debug_coords) } = PixelsOf(image)
          /\ Len(debug_coords) = image.width * image.height
          /\ \A xy \in PixelsOf(image) :
                CellOf(font, char_width, char_height, xy[1], xy[2]) # NoChar

C9_Witness ==
    /\ pc = "for_local_x"
    /\ char_width = 2
    /\ char_height = 2
    /\ glyph_y = GridRows - 1
    /\ glyph_x = GridCols - 1
    /\ local_y = 1
    /\ local_x = 1

(***************************************************************************)
(* C10: glyph invariant.                                                   *)
(***************************************************************************)

FilledAt(g, r) ==
    LET cur == glyph_y * GridCols + (IF pc = "for_glyph_y" THEN 0 ELSE glyph_x)
    IN  IF ScanDone \/ g < cur THEN char_width
        ELSE IF g > cur \/ pc \in { "for_glyph_y", "for_glyph_x" } THEN 0
        ELSE IF r < local_y THEN char_width
        ELSE IF r = local_y /\ pc = "for_local_x" THEN local_x
        ELSE 0

====
